---- MODULE Spec2Model ----
(***************************************************************************)
(* Model of src/src/math/ndarray.ts: the NDArray value type, its shared    *)
(* NDArrayData storage (host values / WebGL texture / texture layout) and  *)
(* the lazy upload and download between the two storage forms.             *)
(*                                                                         *)
(* One NDArrayData object is modelled (variable data); every NDArray in    *)
(* tensors references it: tensors[1] is the array built by NDArray.make,   *)
(* the others are the arrays returned by reshape, which pass this.data on. *)
(* An array made by NDArray.like has an NDArrayData of its own (copies).   *)
(* An optional JavaScript value is the empty tuple (null / undefined) or a *)
(* one-element tuple holding the value.                                    *)
(***************************************************************************)
EXTENDS Integers, Sequences, FiniteSets, TLC

VARIABLES
    gpu,        \* the module globals GPGPU and TEXTURE_MANAGER (set or null)
    data,       \* the shared NDArrayData: values, texture, textureShapeRC
    tensors,    \* the NDArray objects that reference data
    textures,   \* the texture manager's textures, indexed by handle
    promises,   \* the promises returned by getValuesAsync
    copies,     \* the arrays made by NDArray.like, each with its own NDArrayData
    hist,       \* how data was constructed; whether a collaborator threw
    last        \* the last call: operation, receiver, outcome, calls made

vars == <<gpu, data, tensors, textures, promises, copies, hist, last>>

\* ------------------------------------------------------------------ bounds
MaxTensors == 2      \* NDArray objects sharing the storage
MaxTextures == 2     \* textures the pool can hand out before it is exhausted
MaxRequests == 2     \* getValuesAsync calls
MaxCopies == 1       \* arrays made by NDArray.like
MaxLen == 2          \* length of the host buffers given to NDArray.make
MaxDim == 3          \* dimension sizes of the arrays whose index mappings are called

Dims == {1, 2}                   \* dimension sizes
Ranks == 0..3
NewVals == {7}                   \* values written by set and fill
Deltas == {1}                    \* values added by add
MaxVal == 2                      \* add stops at this element value
DTypes == {"float32"}
Undefined == "undefined"         \* reshape passes no dtype to NDArray.make

Null == <<>>
Some(x) == <<x>>
Val(o) == o[1]

Pad == 0        \* texels of a texture beyond the uploaded matrix
Uninit == -1    \* texels of a texture nothing was uploaded to

Layouts == {<<1, 1>>, <<1, 2>>, <<1, 3>>}    \* texture layouts [rows, columns]
Shapes == UNION {[1..n -> Dims] : n \in Ranks}
\* Shapes given to reshape may hold the implicit dimension -1.
ReshapeShapes ==
    {s \in Shapes : Len(s) <= 2} \cup {<<1, 1, 1>>, <<1, 2, 1>>}
        \cup {<<-1>>, <<-1, 1>>, <<2, -1>>, <<-1, -1>>}
Iota(n) == [i \in 1..n |-> i]
HostBuffers == {Iota(n) : n \in 1..MaxLen}

\* ------------------------------------------------------------ util helpers
RECURSIVE SizeFromShape(_)
SizeFromShape(shape) ==
    IF shape = <<>> THEN 1 ELSE Head(shape) * SizeFromShape(Tail(shape))

ArraysEqual(a, b) == a = b

RECURSIVE ProductOfKnown(_)
ProductOfKnown(shape) ==
    IF shape = <<>> THEN 1
    ELSE (IF Head(shape) = -1 THEN 1 ELSE Head(shape)) * ProductOfKnown(Tail(shape))

\* util.inferFromImplicitShape: at most one -1, replaced by size / product
\* of the other dimensions.
InferFromImplicitShape(shape, size) ==
    LET implicit == {i \in DOMAIN shape : shape[i] = -1}
        prod == ProductOfKnown(shape)
    IN  IF implicit = {} THEN [ok |-> TRUE, shape |-> shape]
        ELSE IF Cardinality(implicit) > 1 \/ size % prod # 0
             THEN [ok |-> FALSE, shape |-> shape]
             ELSE [ok |-> TRUE,
                   shape |-> [i \in DOMAIN shape |->
                                 IF shape[i] = -1 THEN size \div prod ELSE shape[i]]]

\* ------------------------------------------------------------ constructors
RECURSIVE Stride(_, _)
Stride(shape, i) ==
    IF i = Len(shape) - 1 THEN shape[Len(shape)]
    ELSE Stride(shape, i + 1) * shape[i + 1]

Strides(shape) ==
    IF Len(shape) < 2 THEN <<>>
    ELSE [i \in 1..(Len(shape) - 1) |-> Stride(shape, i)]

\* Mutant of StorageChecks: the assertion on textureShapeRC is left out.
StorageChecksWithoutLayout(d) ==
    d.values # Null \/ d.texture # Null

\* The two storage assertions of the NDArray constructor.
StorageChecks(d) ==
    /\ (d.values # Null \/ d.texture # Null)
    /\ (d.texture = Null \/ d.textureShapeRC # Null)

\* Mutant of LengthCheck: a buffer longer than the shape is let through.
LengthCheckAtMost(shape, d) ==
    d.values # Null => SizeFromShape(shape) <= Len(Val(d.values))

\* The length assertion of the NDArray constructor.
LengthCheck(shape, d) ==
    d.values # Null => SizeFromShape(shape) = Len(Val(d.values))

\* new NDArray(shape, data, dtype), for the class kind.
NDArrayCtor(kind, shape, d, dtype) ==
    IF StorageChecks(d) /\ LengthCheck(shape, d)
    THEN [ok |-> TRUE, data |-> d,
          tensor |-> [kind |-> kind, shape |-> Some(shape),
                      size |-> SizeFromShape(shape),
                      strides |-> Strides(shape), dtype |-> dtype]]
    ELSE [ok |-> FALSE, data |-> d, tensor |-> Null]

\* new Scalar(data, dtype): a texture gets the layout [1, 1], written into
\* the data object that was passed in.
ScalarCtor(d, dtype) ==
    NDArrayCtor("Scalar", <<>>,
                IF d.texture # Null
                THEN [d EXCEPT !.textureShapeRC = Some(<<1, 1>>)] ELSE d,
                dtype)

\* The shape new Array1D(data, dtype) takes from the data.
Array1DShape(d) ==
    IF d.values # Null THEN <<Len(Val(d.values))>>
    ELSE <<SizeFromShape(Val(d.textureShapeRC))>>

\* new Array1D(data, dtype); sizeFromShape(undefined) throws.
Array1DCtor(d, dtype) ==
    IF d.values = Null /\ d.textureShapeRC = Null
    THEN [ok |-> FALSE, data |-> d, tensor |-> Null]
    ELSE NDArrayCtor("Array1D", Array1DShape(d), d, dtype)

Array2DCtor(shape, d, dtype) == NDArrayCtor("Array2D", shape, d, dtype)

\* NDArray.make(shape, data, dtype)
Make(shape, d, dtype) ==
    CASE Len(shape) = 0 -> ScalarCtor(d, dtype)
      [] Len(shape) = 1 -> Array1DCtor(d, dtype)
      [] Len(shape) = 2 -> Array2DCtor(shape, d, dtype)
      [] OTHER -> NDArrayCtor("NDArray", shape, d, dtype)

\* ------------------------------------------------------------ collaborators
Capacity(layout) == layout[1] * layout[2]

\* webgl_util.getTextureShapeFromLogicalShape may return any layout that
\* holds the logical shape.
LayoutsFor(shape) == {l \in Layouts : Capacity(l) >= SizeFromShape(shape)}

\* The answers to a request with a preferred layout: the preferred layout
\* when it holds the shape, any layout that does otherwise.
NegotiatedLayouts(shape, pref) ==
    IF pref # Null /\ Val(pref) \in LayoutsFor(shape)
    THEN {Val(pref)} ELSE LayoutsFor(shape)

\* GPGPU.uploadMatrixToTexture: the matrix followed by padding texels.
UploadMatrixToTexture(layout, values) ==
    [i \in 1..Capacity(layout) |-> IF i <= Len(values) THEN values[i] ELSE Pad]

\* GPGPU.downloadMatrixFromTexture: rows * columns texels.
DownloadMatrixFromTexture(mem, rows, cols) ==
    [i \in 1..(rows * cols) |-> IF i <= Len(mem) THEN mem[i] ELSE Uninit]

\* TEXTURE_MANAGER.acquireTexture: a new handle, its texels not yet written.
AcquireTexture(tex, layout) ==
    Append(tex, [layout |-> layout,
                 mem |-> [i \in 1..Capacity(layout) |-> Uninit],
                 src |-> Null, byUpload |-> TRUE, released |-> <<>>])

\* TEXTURE_MANAGER.releaseTexture(texture, layout), logged on the texture.
\* The texels of a released texture can no longer be read through data.
ReleaseTexture(tex, h, layout) ==
    [tex EXCEPT ![h].released = Append(@, layout), ![h].mem = <<>>, ![h].src = Null]

\* ------------------------------------------------------------------ storage
GPUNotInitialized(g) == ~g.GPGPU \/ ~g.TEXTURE_MANAGER

\* Mutant of NeedsDownload: getValues downloads whatever it holds.
NeedsDownloadAlways(d) == TRUE

\* The test of getValues: is a download needed.
NeedsDownload(d) == d.values = Null

\* Mutant of TextureMissing: the test looks at the host values.
TextureMissingByValues(d) == d.values # Null

\* The test of getTexture: is an upload needed.
TextureMissing(d) == d.texture = Null

\* The test of getTextureShapeRC: is an upload needed.
LayoutMissing(d) == d.textureShapeRC = Null

\* Mutant of ClearTexture: the texture handle is not cleared.
ClearTextureKeepsHandle(d) == [d EXCEPT !.textureShapeRC = Null]

\* The two assignments that end disposeTexture.
ClearTexture(d) == [d EXCEPT !.texture = Null, !.textureShapeRC = Null]

Result(outcome, err, d, tex, ret, calls, failed) ==
    [outcome |-> outcome, err |-> err, data |-> d, textures |-> tex,
     ret |-> ret, calls |-> calls, failed |-> failed]

\* disposeTexture() on storage d, after the calls already made.
DisposeTexture(d, tex, g, ret, calls) ==
    IF GPUNotInitialized(g)
    THEN Result("error", "GPU not intialized.", d, tex, Null, calls, FALSE)
    ELSE Result("ok", "", ClearTexture(d),
                ReleaseTexture(tex, Val(d.texture), Val(d.textureShapeRC)),
                ret, Append(calls, "releaseTexture"), FALSE)

\* getValues() on storage d.
GetValuesRes(d, tex, g) ==
    IF ~NeedsDownload(d)
    THEN Result("ok", "", d, tex, d.values, <<>>, FALSE)
    ELSE IF GPUNotInitialized(g)
    THEN Result("error", "GPU not intialized.", d, tex, Null, <<>>, FALSE)
    ELSE IF d.textureShapeRC = Null \/ d.texture = Null
    \* textureShapeRC[0] of null throws; so does the download of no texture
    THEN Result("error", "TypeError", d, tex, Null, <<>>, FALSE)
    ELSE LET rc == Val(d.textureShapeRC)
             v == DownloadMatrixFromTexture(tex[Val(d.texture)].mem, rc[1], rc[2])
         IN  DisposeTexture([d EXCEPT !.values = Some(v)], tex, g, Some(v),
                            <<"downloadMatrixFromTexture">>)

\* uploadToGPU() of an array of the given shape; layout is the answer of the
\* layout negotiation, acqFails says the pool has no texture to give,
\* nullThrows says uploadMatrixToTexture throws when handed no matrix.
UploadToGPU(d, shape, tex, g, layout, acqFails, nullThrows) ==
    IF GPUNotInitialized(g)
    THEN Result("error", "GPU not intialized.", d, tex, Null, <<>>, FALSE)
    ELSE IF shape = Null
    THEN Result("error", "TypeError", d, tex, Null,
                <<"getTextureShapeFromLogicalShape">>, FALSE)
    ELSE LET d1 == [d EXCEPT !.textureShapeRC = Some(layout)]
             tex1 == AcquireTexture(tex, layout)
             h == Len(tex1)
             d2 == [d1 EXCEPT !.texture = Some(h)]
             c2 == <<"getTextureShapeFromLogicalShape", "acquireTexture">>
             c3 == Append(c2, "uploadMatrixToTexture")
         IN  IF acqFails \/ Len(tex) >= MaxTextures
             THEN Result("error", "pool exhausted", d1, tex, Null, c2, TRUE)
             ELSE IF d.values = Null
             THEN Result(IF nullThrows THEN "error" ELSE "ok",
                         IF nullThrows THEN "TypeError" ELSE "",
                         d2, tex1, Null, c3, nullThrows)
             ELSE IF Len(Val(d.values)) > Capacity(layout)
             THEN Result("error", "matrix exceeds texture", d2, tex1, Null, c3, TRUE)
             ELSE Result("ok", "",
                         [d2 EXCEPT !.values = Null],
                         [tex1 EXCEPT ![h].mem = UploadMatrixToTexture(layout, Val(d.values)),
                                      ![h].src = d.values],
                         Null, c3, FALSE)

\* ------------------------------------------------------------------- state
NoData == [values |-> Null, texture |-> Null, textureShapeRC |-> Null]

Call(op, t, res) ==
    [op |-> op, outcome |-> res.outcome, err |-> res.err,
     ret |-> res.ret, calls |-> res.calls]

Init ==
    /\ gpu = [GPGPU |-> FALSE, TEXTURE_MANAGER |-> FALSE]
    /\ data = NoData
    /\ tensors = <<>>
    /\ textures = <<>>
    /\ promises = <<>>
    /\ copies = <<>>
    /\ hist = [origin |-> "none", failed |-> FALSE]
    /\ last = [op |-> "init", outcome |-> "ok", err |-> "",
               ret |-> Null, calls |-> <<>>]

Live(i) == tensors[i].shape # Null

InitArgs == {<<TRUE, TRUE>>, <<FALSE, FALSE>>}

\* initializeGPU(gpgpu, textureManager)
InitializeGPU(g, tm) ==
    /\ gpu' = [GPGPU |-> g, TEXTURE_MANAGER |-> tm]
    /\ last' = [op |-> "initializeGPU", outcome |-> "ok", err |-> "",
                ret |-> Null, calls |-> <<>>]
    /\ UNCHANGED <<data, tensors, textures, promises, hist, copies>>

\* The storage descriptors NDArray.make is given: host values, a texture
\* made elsewhere, a layout, in every combination.
Descriptors ==
    [values : {Null} \cup {Some(b) : b \in HostBuffers},
     texture : {Null, Some(1)},
     textureShapeRC : {Null} \cup {Some(l) : l \in Layouts}]

Origin(d) ==
    IF d.values # Null /\ d.texture = Null /\ d.textureShapeRC = Null THEN "values"
    ELSE IF d.values = Null /\ d.texture # Null THEN "texture"
    ELSE "mixed"

\* The texture a caller hands to NDArray.make was made elsewhere: it has the
\* layout the caller declares (1 x 1 when none is declared).
ForeignTexture(d) ==
    LET l == IF d.textureShapeRC = Null THEN <<1, 1>> ELSE Val(d.textureShapeRC)
    IN  [layout |-> l, mem |-> Iota(Capacity(l)), src |-> Null,
         byUpload |-> FALSE, released |-> <<>>]

\* NDArray.make(shape, desc, dtype) from outside: the first array.
Construct(shape, desc, dtype) ==
    /\ LET m == Make(shape, desc, dtype)
       IN  /\ last' = [op |-> "make",
                       outcome |-> IF m.ok THEN "ok" ELSE "error",
                       err |-> IF m.ok THEN "" ELSE "assert",
                       ret |-> Null, calls |-> <<>>]
           /\ IF m.ok
              THEN /\ data' = m.data
                   /\ tensors' = <<m.tensor>>
                   /\ textures' = IF desc.texture # Null
                                  THEN <<ForeignTexture(desc)>> ELSE <<>>
                   /\ hist' = [hist EXCEPT !.origin = Origin(desc)]
              ELSE /\ hist' = [hist EXCEPT !.origin = "rejected"]
                   /\ UNCHANGED <<data, tensors, textures>>
    /\ UNCHANGED <<gpu, promises, copies>>

\* The storage part of a call's result becomes the new state.
Commit(op, i, res) ==
    /\ data' = res.data
    /\ textures' = res.textures
    /\ hist' = [hist EXCEPT !.failed = @ \/ res.failed]
    /\ last' = Call(op, i, res)

\* t.getValues()
GetValues(i) ==
    LET res == GetValuesRes(data, textures, gpu)
    IN  /\ Commit("getValues", i, res)
        /\ UNCHANGED <<gpu, tensors, promises, copies>>

\* t.getTexture(preferredShapeRC); what it returns is the texture field.
GetTexture(i, pref, layout, acqFails, nullThrows) ==
    /\ acqFails => ~nullThrows
    /\ nullThrows => data.values = Null
    /\ layout \in NegotiatedLayouts(IF Live(i) THEN Val(tensors[i].shape) ELSE <<>>, pref)
    /\ LET up == UploadToGPU(data, tensors[i].shape, textures, gpu,
                             layout, acqFails, nullThrows)
           res == IF ~TextureMissing(data)
                  THEN Result("ok", "", data, textures, Some(data.texture), <<>>, FALSE)
                  ELSE IF up.outcome = "ok"
                       THEN [up EXCEPT !.ret = Some(up.data.texture)]
                       ELSE up
       IN  Commit("getTexture", i, res)
    /\ UNCHANGED <<gpu, tensors, promises, copies>>

\* t.getTextureShapeRC(preferredShapeRC)
GetTextureShapeRC(i, pref, layout, acqFails, nullThrows) ==
    /\ acqFails => ~nullThrows
    /\ nullThrows => data.values = Null
    /\ layout \in NegotiatedLayouts(IF Live(i) THEN Val(tensors[i].shape) ELSE <<>>, pref)
    /\ LET up == UploadToGPU(data, tensors[i].shape, textures, gpu,
                             layout, acqFails, nullThrows)
           res == IF ~LayoutMissing(data)
                  THEN Result("ok", "", data, textures, data.textureShapeRC, <<>>, FALSE)
                  ELSE IF up.outcome = "ok"
                       THEN [up EXCEPT !.ret = up.data.textureShapeRC]
                       ELSE up
       IN  Commit("getTextureShapeRC", i, res)
    /\ UNCHANGED <<gpu, tensors, promises, copies>>

\* t.dispose()
Dispose(i) ==
    LET d1 == [data EXCEPT !.values = Null]
        res == IF d1.texture # Null
               THEN DisposeTexture(d1, textures, gpu, Null, <<>>)
               ELSE Result("ok", "", d1, textures, Null, <<>>, FALSE)
    IN  /\ tensors' = [tensors EXCEPT ![i].shape = Null]
        /\ Commit("dispose", i, res)
        /\ UNCHANGED <<gpu, promises, copies>>

\* t.reshape(newShape)
Reshape(i, newShape) ==
    LET t == tensors[i]
        inf == InferFromImplicitShape(newShape, t.size)
        m == Make(inf.shape, data, Undefined)
        fail(err) == [op |-> "reshape", outcome |-> "error", err |-> err,
                         ret |-> Null, calls |-> <<>>]
        done(r) == [op |-> "reshape", outcome |-> "ok", err |-> "",
                    ret |-> Some(r), calls |-> <<>>]
    IN  /\ UNCHANGED <<gpu, textures, promises, hist, copies>>
        /\ IF ~inf.ok
           THEN last' = fail("implicit shape") /\ UNCHANGED <<data, tensors>>
           ELSE IF t.shape = Null
           THEN last' = fail("TypeError") /\ UNCHANGED <<data, tensors>>
           ELSE IF ArraysEqual(Val(t.shape), inf.shape)
           THEN last' = done(i) /\ UNCHANGED <<data, tensors>>
           ELSE IF t.size # SizeFromShape(inf.shape)
           THEN last' = fail("assert") /\ UNCHANGED <<data, tensors>>
           ELSE /\ data' = m.data
                /\ IF m.ok
                   THEN /\ Len(tensors) < MaxTensors
                        /\ tensors' = Append(tensors, m.tensor)
                        /\ last' = done(Len(tensors) + 1)
                   ELSE /\ tensors' = tensors
                        /\ last' = fail("assert")

\* ---------------------------------------------------------------- indexing
RankOf(t) ==
    CASE t.kind = "Scalar" -> 0
      [] t.kind = "Array1D" -> 1
      [] OTHER -> Len(t.strides) + 1

Indices == 0..MaxLen

\* The index tuples a caller may pass: within the shape while the array has
\* one, of the array's rank once dispose has cleared it.
ValidLocs(t) ==
    IF t.shape = Null THEN {[k \in 1..RankOf(t) |-> 0]}
    ELSE {locs \in [1..RankOf(t) -> Indices] :
             \A k \in 1..RankOf(t) : locs[k] < Val(t.shape)[k]}

RECURSIVE StrideSum(_, _, _)
StrideSum(strides, locs, n) ==
    IF n = 0 THEN 0
    ELSE strides[n] * locs[n] + StrideSum(strides, locs, n - 1)

\* The loop shared by NDArray.get, NDArray.set and NDArray.locToIndex.
LocToIndex(strides, locs) ==
    locs[Len(locs)] + StrideSum(strides, locs, Len(locs) - 1)

\* Mutant of Offset: the matrix is addressed by columns.
OffsetByColumns(t, locs) ==
    CASE t.kind = "Scalar" -> 0
      [] t.kind = "Array1D" -> locs[1]
      [] t.kind = "Array2D" -> locs[1] + t.strides[1] * locs[2]
      [] OTHER -> LocToIndex(t.strides, locs)

\* The flat offset the class of t computes for locs.
Offset(t, locs) ==
    CASE t.kind = "Scalar" -> 0
      [] t.kind = "Array1D" -> locs[1]
      [] t.kind = "Array2D" -> t.strides[1] * locs[1] + locs[2]
      [] OTHER -> LocToIndex(t.strides, locs)

\* values[index], undefined beyond the buffer.
ElementAt(values, index) ==
    IF index < Len(values) THEN Some(values[index + 1]) ELSE Null

\* Mutant of StoreAt: the write goes to the first element.
StoreAtFirst(values, index, v) ==
    IF index < Len(values) THEN [values EXCEPT ![1] = v] ELSE values

\* values[index] = v; a typed array ignores a write beyond its length.
StoreAt(values, index, v) ==
    IF index < Len(values) THEN [values EXCEPT ![index + 1] = v] ELSE values

\* t.get(...locs)
Get(i, locs) ==
    LET res == GetValuesRes(data, textures, gpu)
        out == IF res.outcome = "ok"
               THEN [res EXCEPT !.ret = ElementAt(Val(res.ret), Offset(tensors[i], locs))]
               ELSE res
    IN  /\ Commit("get", i, out)
        /\ UNCHANGED <<gpu, tensors, promises, copies>>

\* t.set(value, ...locs)
Set(i, v, locs) ==
    LET res == GetValuesRes(data, textures, gpu)
        out == IF res.outcome = "ok"
               THEN [res EXCEPT !.data.values =
                                   Some(StoreAt(Val(res.ret), Offset(tensors[i], locs), v)),
                                !.ret = Null]
               ELSE res
    IN  /\ Commit("set", i, out)
        /\ UNCHANGED <<gpu, tensors, promises, copies>>

\* An unwritten texel holds no number an addition could change.
Plus(x, delta) == IF x = Uninit THEN Uninit ELSE x + delta

\* t.add(value, ...locs)
Add(i, delta, locs) ==
    LET res == GetValuesRes(data, textures, gpu)
        k == Offset(tensors[i], locs)
        old == IF res.outcome = "ok" THEN ElementAt(Val(res.ret), k) ELSE Null
        out == IF res.outcome = "ok" /\ old # Null
               THEN [res EXCEPT !.data.values =
                                   Some(StoreAt(Val(res.ret), k, Plus(Val(old), delta))),
                                !.ret = Null]
               ELSE [res EXCEPT !.ret = Null]
    IN  /\ old # Null => Plus(Val(old), delta) <= MaxVal
        /\ Commit("add", i, out)
        /\ UNCHANGED <<gpu, tensors, promises, copies>>

\* t.fill(value)
Fill(i, v) ==
    LET res == GetValuesRes(data, textures, gpu)
        out == IF res.outcome = "ok"
               THEN [res EXCEPT !.data.values =
                                   Some([k \in 1..Len(Val(res.ret)) |-> v]),
                                !.ret = Null]
               ELSE res
    IN  /\ Commit("fill", i, out)
        /\ UNCHANGED <<gpu, tensors, promises, copies>>

\* The loop of NDArray.indexToLoc from position i on, and its last assignment.
RECURSIVE IndexToLocFrom(_, _, _)
IndexToLocFrom(strides, index, i) ==
    IF i > Len(strides) THEN <<index>>
    ELSE <<index \div strides[i]>>
            \o IndexToLocFrom(strides, index - (index \div strides[i]) * strides[i], i + 1)

\* NDArray.indexToLoc(index)
IndexToLoc(strides, index) == IndexToLocFrom(strides, index, 1)

\* Mutant of Array2DIndexToLoc: quotient and remainder change places.
Array2DIndexToLocSwapped(stride0, index) ==
    <<index % stride0, index \div stride0>>

\* Array2D.indexToLoc(index)
Array2DIndexToLoc(stride0, index) ==
    <<index \div stride0, index % stride0>>

\* What locToIndex(locs) of the class of t returns; a Scalar inherits the
\* generic method, which reads locs[-1].
LocToIndexOf(t, locs) ==
    CASE t.kind = "Scalar" -> Null
      [] t.kind = "Array1D" -> Some(locs[1])
      [] t.kind = "Array2D" -> Some(t.strides[1] * locs[1] + locs[2])
      [] OTHER -> Some(LocToIndex(t.strides, locs))

\* What indexToLoc(index) of the class of t returns.
IndexToLocOf(t, index) ==
    CASE t.kind = "Scalar" -> <<>>
      [] t.kind = "Array1D" -> <<index>>
      [] t.kind = "Array2D" -> Array2DIndexToLoc(t.strides[1], index)
      [] OTHER -> IndexToLoc(t.strides, index)

\* t.locToIndex(locs)
LocToIndexCall(i, locs) ==
    /\ last' = [op |-> "locToIndex", outcome |-> "ok", err |-> "",
                ret |-> LocToIndexOf(tensors[i], locs), calls |-> <<>>]
    /\ UNCHANGED <<gpu, data, tensors, textures, promises, hist, copies>>

\* t.indexToLoc(index); the generic method and the Scalar read shape.length.
IndexToLocCall(i, index) ==
    /\ last' = IF ~Live(i) /\ tensors[i].kind \in {"Scalar", "NDArray"}
               THEN [op |-> "indexToLoc", outcome |-> "error", err |-> "TypeError",
                     ret |-> Null, calls |-> <<>>]
               ELSE [op |-> "indexToLoc", outcome |-> "ok", err |-> "",
                     ret |-> Some(IndexToLocOf(tensors[i], index)), calls |-> <<>>]
    /\ UNCHANGED <<gpu, data, tensors, textures, promises, hist, copies>>

\* t.inGPU()
InGPU(i) == data.texture # Null

\* What t.get(...t.indexToLoc(k)) returns in the current state: the element
\* at flat offset k read through array i, null when the read throws.
ReadAt(i, k) ==
    LET t == tensors[i]
        res == GetValuesRes(data, textures, gpu)
    IN  IF res.outcome = "ok"
        THEN ElementAt(Val(res.ret), Offset(t, IndexToLocOf(t, k)))
        ELSE Null

\* ------------------------------------------------------------ like, equals
\* new Float32Array(values): a new buffer holding the same numbers.
Float32ArrayFrom(values) == [k \in 1..Len(values) |-> values[k]]

\* The array t.equals(u) is given: a reshape alias or a copy made by like.
Refs == ({"tensor"} \X DOMAIN tensors) \cup ({"copy"} \X DOMAIN copies)

\* The shape test of equals.
SameShape(t, u) == ArraysEqual(Val(t.shape), Val(u.shape))

\* t.equals(u) for t on storage d and u holding the values theirs (null:
\* u shares the storage of t); the tests are made from left to right.
EqualsOf(t, d, u, theirs, tex, g) ==
    LET mine == GetValuesRes(d, tex, g)
        no == Result("ok", "", d, tex, Some(FALSE), <<>>, FALSE)
    IN  IF t.dtype # u.dtype THEN no
        ELSE IF t.shape = Null \/ u.shape = Null
        THEN Result("error", "TypeError", d, tex, Null, <<>>, FALSE)
        ELSE IF ~SameShape(t, u) THEN no
        ELSE IF mine.outcome # "ok" THEN mine
        ELSE [mine EXCEPT !.ret =
                 Some(ArraysEqual(Val(mine.ret),
                                  IF theirs = Null THEN Val(mine.data.values)
                                  ELSE Val(theirs)))]

\* t.equals(u)
Equals(i, ref) ==
    LET u == IF ref[1] = "copy" THEN copies[ref[2]].tensor ELSE tensors[ref[2]]
        theirs == IF ref[1] = "copy" THEN copies[ref[2]].data.values ELSE Null
    IN  /\ Commit("equals", i, EqualsOf(tensors[i], data, u, theirs, textures, gpu))
        /\ UNCHANGED <<gpu, tensors, promises, copies>>

\* NDArray.like(t): getValues(), then NDArray.make on a copy of the values.
Like(i) ==
    LET t == tensors[i]
        res == GetValuesRes(data, textures, gpu)
        m == Make(Val(t.shape),
                  [NoData EXCEPT !.values = Some(Float32ArrayFrom(Val(res.ret)))],
                  t.dtype)
    IN  /\ Len(copies) < MaxCopies
        /\ UNCHANGED <<gpu, tensors, promises>>
        /\ IF res.outcome # "ok"
           THEN Commit("like", i, res) /\ UNCHANGED copies
           ELSE IF t.shape = Null
           THEN /\ Commit("like", i, [res EXCEPT !.outcome = "error",
                                                !.err = "TypeError", !.ret = Null])
                /\ UNCHANGED copies
           ELSE IF ~m.ok
           THEN /\ Commit("like", i, [res EXCEPT !.outcome = "error",
                                                !.err = "assert", !.ret = Null])
                /\ UNCHANGED copies
           ELSE /\ Commit("like", i, [res EXCEPT !.ret = Some(Len(copies) + 1)])
                /\ copies' = Append(copies, [tensor |-> m.tensor, data |-> m.data])

\* c.set(value, ...locs) on a copy made by like, whose values are on the host.
SetCopy(k, v, locs) ==
    /\ copies' = [copies EXCEPT ![k].data.values =
                      Some(StoreAt(Val(@), Offset(copies[k].tensor, locs), v))]
    /\ last' = [op |-> "setCopy", outcome |-> "ok", err |-> "",
                ret |-> Null, calls |-> <<>>]
    /\ UNCHANGED <<gpu, data, tensors, textures, promises, hist>>

\* ------------------------------------------------------------ asynchronous
\* A promise settled at once: resolved with a value, or rejected because the
\* executor threw.
Settled(i, res) ==
    [t |-> i,
     state |-> IF res.outcome = "ok" THEN "resolved" ELSE "rejected",
     value |-> res.ret]

\* A promise that was not resolved inside the call.
Unresolved(i, state) == [t |-> i, state |-> state, value |-> Null]

\* Mutant of AsyncPath: the query timer extension is never used.
AsyncPathWithoutQuery(d, ext) ==
    IF d.values # Null THEN "resolve" ELSE "getValues"

\* The branch the executor of getValuesAsync takes: resolve with the values
\* at hand, resolve with getValues(), or run a query first.
AsyncPath(d, ext) ==
    IF d.values # Null THEN "resolve"
    ELSE IF ~ext THEN "getValues"
    ELSE "runQuery"

\* t.getValuesAsync(); ext is what ENV.get returns for
\* WEBGL_DISJOINT_QUERY_TIMER_EXTENSION_ENABLED. The call returns a promise
\* whatever happens inside its executor.
GetValuesAsync(i, ext) ==
    /\ Len(promises) < MaxRequests
    /\ LET sync == GetValuesRes(data, textures, gpu)
           none == Result("ok", "", data, textures, Null, <<>>, FALSE)
       IN  IF AsyncPath(data, ext) # "runQuery"
           THEN /\ promises' = Append(promises, Settled(i, sync))
                /\ Commit("getValuesAsync", i,
                          [sync EXCEPT !.outcome = "ok", !.err = "", !.ret = Null])
           ELSE IF ~gpu.GPGPU
           THEN /\ promises' = Append(promises, Unresolved(i, "rejected"))
                /\ Commit("getValuesAsync", i, none)
           ELSE /\ promises' = Append(promises, Unresolved(i, "pending"))
                /\ Commit("getValuesAsync", i, [none EXCEPT !.calls = <<"runQuery">>])
    /\ UNCHANGED <<gpu, tensors, copies>>

\* The query of promise k has completed: the callback calls getValues(); when
\* that throws, neither resolve nor reject is ever called.
QueryCompletes(k) ==
    /\ promises[k].state = "pending"
    /\ LET res == GetValuesRes(data, textures, gpu)
       IN  /\ promises' = [promises EXCEPT
                              ![k].state = IF res.outcome = "ok"
                                           THEN "resolved" ELSE "abandoned",
                              ![k].value = res.ret]
           /\ Commit("queryCallback", promises[k].t, res)
    /\ UNCHANGED <<gpu, tensors, copies>>

\* The query of promise k has failed: runQuery's promise has no rejection
\* handler, so the promise of getValuesAsync is left unsettled.
QueryFails(k) ==
    /\ promises[k].state = "pending"
    /\ promises' = [promises EXCEPT ![k].state = "abandoned"]
    /\ last' = [op |-> "queryFailed", outcome |-> "ok", err |-> "",
                ret |-> Null, calls |-> <<>>]
    /\ UNCHANGED <<gpu, data, tensors, textures, hist, copies>>

\* ----------------------------------------------------------- specifications
Prefs == {Null, Some(<<1, 2>>)}

\* The storage a caller builds an array from in the specifications that
\* follow one array: host values alone.
PlainDescriptors ==
    {d \in Descriptors : Origin(d) = "values"}

\* One array and every operation on its storage.
Next ==
    \/ \E a \in InitArgs : InitializeGPU(a[1], a[2])
    \/ /\ hist.origin = "none"
       /\ \E s \in Shapes, d \in PlainDescriptors, dt \in DTypes : Construct(s, d, dt)
    \/ \E i \in DOMAIN tensors : GetValues(i)
    \/ \E i \in DOMAIN tensors, pref \in Prefs, l \in Layouts,
          a \in BOOLEAN, n \in BOOLEAN : GetTexture(i, pref, l, a, n)
    \/ \E i \in DOMAIN tensors, pref \in Prefs, l \in Layouts,
          a \in BOOLEAN, n \in BOOLEAN : GetTextureShapeRC(i, pref, l, a, n)
    \/ \E i \in DOMAIN tensors : \E locs \in ValidLocs(tensors[i]) : Get(i, locs)
    \/ \E i \in DOMAIN tensors, v \in NewVals :
          \E locs \in ValidLocs(tensors[i]) : Set(i, v, locs)
    \/ \E i \in DOMAIN tensors, dl \in Deltas :
          \E locs \in ValidLocs(tensors[i]) : Add(i, dl, locs)
    \/ \E i \in DOMAIN tensors, v \in NewVals : Fill(i, v)

Spec == Init /\ [][Next]_vars

\* An array, its reshape aliases and their disposal, with the backend
\* initialized once and a pool that fails only when it is exhausted.
NextAlias ==
    \/ /\ GPUNotInitialized(gpu)
       /\ InitializeGPU(TRUE, TRUE)
    \/ /\ hist.origin = "none"
       /\ \E s \in Shapes, d \in PlainDescriptors, dt \in DTypes :
             Len(s) <= 2 /\ Construct(s, d, dt)
    \/ \E i \in DOMAIN tensors : GetValues(i)
    \/ \E i \in DOMAIN tensors, l \in Layouts, n \in BOOLEAN :
          GetTexture(i, Null, l, FALSE, n)
    \/ \E i \in DOMAIN tensors, l \in Layouts, n \in BOOLEAN :
          GetTextureShapeRC(i, Null, l, FALSE, n)
    \/ \E i \in DOMAIN tensors : Dispose(i)
    \/ \E i \in DOMAIN tensors, s \in ReshapeShapes : Reshape(i, s)

SpecAlias == Init /\ [][NextAlias]_vars

\* One array, its synchronous and asynchronous downloads and its disposal,
\* with a pool that fails only when it is exhausted.
NextAsync ==
    \/ \E a \in InitArgs : InitializeGPU(a[1], a[2])
    \/ /\ hist.origin = "none"
       /\ \E s \in Shapes, d \in PlainDescriptors, dt \in DTypes :
             Len(s) <= 2 /\ Construct(s, d, dt)
    \/ \E i \in DOMAIN tensors : GetValues(i)
    \/ \E i \in DOMAIN tensors, l \in Layouts, n \in BOOLEAN :
          GetTexture(i, Null, l, FALSE, n)
    \/ \E i \in DOMAIN tensors, ext \in BOOLEAN : GetValuesAsync(i, ext)
    \/ \E k \in DOMAIN promises : QueryCompletes(k)
    \/ \E k \in DOMAIN promises : QueryFails(k)
    \/ \E i \in DOMAIN tensors : Dispose(i)

SpecAsync == Init /\ [][NextAsync]_vars

\* The same, with every query that was run completing or failing in the end.
SpecAsyncFair ==
    /\ Init /\ [][NextAsync]_vars
    /\ WF_promises(\E k \in DOMAIN promises : QueryCompletes(k) \/ QueryFails(k))

\* The shapes of the arrays whose index mappings are called, and the host
\* values such an array is made from.
IndexShapes == UNION {[1..n -> 1..MaxDim] : n \in Ranks}
ValuesFor(shape) ==
    [values |-> Some(Iota(SizeFromShape(shape))), texture |-> Null,
     textureShapeRC |-> Null]

\* One array of any shape and its index mappings.
NextIndex ==
    \/ /\ hist.origin = "none"
       /\ \E s \in IndexShapes, dt \in DTypes : Construct(s, ValuesFor(s), dt)
    \/ \E i \in DOMAIN tensors :
          \E locs \in [1..RankOf(tensors[i]) -> 0..(MaxDim - 1)] :
             /\ \A k \in DOMAIN locs : locs[k] < Val(tensors[i].shape)[k]
             /\ LocToIndexCall(i, locs)
    \/ \E i \in DOMAIN tensors, index \in 0..(MaxDim * MaxDim * MaxDim - 1) :
          index < tensors[i].size /\ IndexToLocCall(i, index)

SpecIndex == Init /\ [][NextIndex]_vars

\* An array, its reshape aliases and the copies NDArray.like makes of them.
NextLike ==
    \/ /\ GPUNotInitialized(gpu)
       /\ InitializeGPU(TRUE, TRUE)
    \/ /\ hist.origin = "none"
       /\ \E s \in Shapes, d \in PlainDescriptors, dt \in DTypes :
             Len(s) <= 2 /\ Construct(s, d, dt)
    \/ \E i \in DOMAIN tensors, l \in Layouts : GetTexture(i, Null, l, FALSE, FALSE)
    \/ \E i \in DOMAIN tensors, s \in Shapes : Len(s) <= 2 /\ Reshape(i, s)
    \/ \E i \in DOMAIN tensors : Like(i)
    \/ \E i \in DOMAIN tensors, ref \in Refs : Equals(i, ref)
    \/ \E i \in DOMAIN tensors, v \in NewVals :
          \E locs \in ValidLocs(tensors[i]) : Set(i, v, locs)
    \/ \E k \in DOMAIN copies, v \in NewVals :
          \E locs \in ValidLocs(copies[k].tensor) : SetCopy(k, v, locs)

SpecLike == Init /\ [][NextLike]_vars

\* An array and its reshape aliases, read and written through any of them.
NextShare ==
    \/ /\ GPUNotInitialized(gpu)
       /\ InitializeGPU(TRUE, TRUE)
    \/ /\ hist.origin = "none"
       /\ \E s \in Shapes, d \in PlainDescriptors, dt \in DTypes :
             Len(s) <= 2 /\ Construct(s, d, dt)
    \/ \E i \in DOMAIN tensors, s \in ReshapeShapes : Reshape(i, s)
    \/ \E i \in DOMAIN tensors : GetValues(i)
    \/ \E i \in DOMAIN tensors, l \in Layouts : GetTexture(i, Null, l, FALSE, FALSE)
    \/ \E i \in DOMAIN tensors, v \in NewVals :
          \E locs \in ValidLocs(tensors[i]) : Set(i, v, locs)
    \/ \E i \in DOMAIN tensors, dl \in Deltas :
          \E locs \in ValidLocs(tensors[i]) : Add(i, dl, locs)
    \/ \E i \in DOMAIN tensors, v \in NewVals : Fill(i, v)

SpecShare == Init /\ [][NextShare]_vars

\* An array brought into a texture, its reshape aliases, and then requests
\* for its values through any of them: getValuesAsync with the query timer
\* extension enabled or not, the completion of the queries, getValues.
NextRequests ==
    \/ /\ GPUNotInitialized(gpu)
       /\ InitializeGPU(TRUE, TRUE)
    \/ /\ hist.origin = "none"
       /\ \E s \in Shapes, d \in PlainDescriptors, dt \in DTypes :
             Len(s) <= 2 /\ Construct(s, d, dt)
    \/ /\ promises = <<>>
       /\ \E i \in DOMAIN tensors, s \in Shapes : Len(s) <= 2 /\ Reshape(i, s)
    \/ /\ promises = <<>>
       /\ \E i \in DOMAIN tensors, l \in Layouts : GetTexture(i, Null, l, FALSE, FALSE)
    \/ \E i \in DOMAIN tensors : GetValues(i)
    \/ \E i \in DOMAIN tensors, ext \in BOOLEAN : GetValuesAsync(i, ext)
    \/ \E k \in DOMAIN promises : QueryCompletes(k)

SpecRequests == Init /\ [][NextRequests]_vars

\* NDArray.make on every storage descriptor.
NextMake ==
    /\ hist.origin = "none"
    /\ \E s \in Shapes, d \in Descriptors, dt \in DTypes \cup {Undefined} :
          Construct(s, d, dt)

SpecMake == Init /\ [][NextMake]_vars
\* ------------------------------------------------------------------ claims
NoneDisposed == \A i \in DOMAIN tensors : Live(i)

\* C1: for an array constructed from host values only, before any dispose
\* and with no collaborator failure, exactly one storage form is present
\* after every completed call: values and texture are never both null and
\* never both non-null.
ExactlyOneStorageForm ==
    (hist.origin = "values" /\ ~hist.failed /\ NoneDisposed)
        => ((data.values = Null) # (data.texture = Null))

\* The array has been uploaded and downloaded again, and then written to.
ExactlyOneStorageFormWitness ==
    /\ hist.origin = "values" /\ ~hist.failed /\ NoneDisposed
    /\ \E h \in DOMAIN textures : textures[h].released # <<>>
    /\ data.values # Null /\ data.texture = Null
    /\ last.op = "set"

\* C2: getTexture() followed by getValues() yields a host buffer of exactly
\* t.size elements that equals the uploaded host values element-wise, for
\* every layout the negotiation may return.
MigrationIsLossless ==
    [][\A i \in DOMAIN tensors :
          (/\ last'.op = "getValues" /\ GetValues(i)
           /\ last'.outcome = "ok"
           /\ data.values = Null /\ data.texture # Null
           /\ textures[Val(data.texture)].src # Null)
          => /\ Len(Val(data'.values)) = tensors[i].size
             /\ data'.values = textures[Val(data.texture)].src]_vars

\* C4: requesting a form that is already resident is a no-op: getValues()
\* with host values present, and getTexture() / getTextureShapeRC() with a
\* texture present, make no collaborator call, succeed and leave values,
\* texture, cached layout and the pool unchanged.
ResidentRequestIsNoOp ==
    [][/\ (last'.op = "getValues" /\ data.values # Null)
            => /\ data' = data /\ textures' = textures
               /\ last'.calls = <<>> /\ last'.outcome = "ok"
               /\ last'.ret = data.values
       /\ (last'.op = "getTexture" /\ data.texture # Null)
            => /\ data' = data /\ textures' = textures
               /\ last'.calls = <<>> /\ last'.outcome = "ok"
               /\ last'.ret = Some(data.texture)
       /\ (last'.op = "getTextureShapeRC" /\ data.texture # Null)
            => /\ data' = data /\ textures' = textures
               /\ last'.calls = <<>> /\ last'.outcome = "ok"
               /\ last'.ret = data.textureShapeRC]_vars

\* getTexture() has just returned the texture of an array that was uploaded
\* by an earlier call.
ResidentRequestWitness ==
    /\ last.op = "getTexture" /\ last.outcome = "ok" /\ last.calls = <<>>
    /\ data.texture # Null /\ data.values = Null

\* C7: with the backend not initialized, getTexture() / getTextureShapeRC()
\* on a host-resident array and getValues() on an accelerator-resident array
\* raise the uninitialized-backend error before any collaborator call and
\* leave values, texture and cached layout as they were.
UninitializedBackendFails ==
    [][((/\ GPUNotInitialized(gpu)
         /\ NoneDisposed
         /\ \/ /\ last'.op \in {"getTexture", "getTextureShapeRC"}
               /\ data.values # Null /\ data.texture = Null
            \/ /\ last'.op = "getValues"
               /\ data.values = Null /\ data.texture # Null)
        => /\ last'.outcome = "error"
           /\ last'.err = "GPU not intialized."
           /\ last'.calls = <<>>
           /\ data' = data /\ textures' = textures)]_vars

\* C3: every texture acquired by an upload is released at most once, and
\* with the layout it was acquired with.
ReleasedOnceWithAcquiredLayout ==
    \A h \in DOMAIN textures :
        textures[h].byUpload =>
            /\ Len(textures[h].released) <= 1
            /\ \A k \in DOMAIN textures[h].released :
                  textures[h].released[k] = textures[h].layout

\* C5: after dispose() on an array, every later read on that array fails
\* instead of returning data, whatever was done in between on it or on the
\* arrays that share its storage.
DisposedArrayRejectsReads ==
    [][\A i \in DOMAIN tensors :
          (~Live(i) /\ last'.op = "getValues" /\ GetValues(i))
             => last'.outcome = "error"]_vars

\* C6: once one reshape alias is disposed, a read through another alias that
\* was not disposed fails.
DisposedAliasInvalidatesOthers ==
    [][\A i \in DOMAIN tensors :
          (/\ Live(i)
           /\ \E j \in DOMAIN tensors : j # i /\ ~Live(j)
           /\ last'.op = "getValues" /\ GetValues(i))
             => last'.outcome = "error"]_vars

\* C10: t.reshape(newShape) succeeds if and only if size(newShape), with an
\* implicit dimension resolved, equals t.size, and the array it returns has
\* shape newShape and size t.size, host-resident or accelerator-resident.
ReshapeKeepsSizeAndTakesShape ==
    [][\A i \in DOMAIN tensors, s \in ReshapeShapes :
          (/\ NoneDisposed /\ hist.origin = "values"
           /\ last'.op = "reshape" /\ Reshape(i, s)) =>
             LET inf == InferFromImplicitShape(s, tensors[i].size)
                 fits == inf.ok /\ SizeFromShape(inf.shape) = tensors[i].size
             IN  /\ (last'.outcome = "ok") = fits
                 /\ last'.outcome = "ok" =>
                       /\ tensors'[Val(last'.ret)].shape = Some(inf.shape)
                       /\ tensors'[Val(last'.ret)].size = tensors[i].size]_vars

\* The descriptor is well-formed in the sense of C8.
WellFormed(d) ==
    /\ (d.values = Null) # (d.texture = Null)
    /\ (d.texture = Null) = (d.textureShapeRC = Null)

\* C8 as stated: construction accepts a storage descriptor only when exactly
\* one of values / texture is supplied and texture and layout are both
\* supplied or both absent, for every rank.
OnlyWellFormedAccepted ==
    [][\A s \in Shapes, d \in Descriptors, dt \in DTypes \cup {Undefined} :
          (last'.op = "make" /\ Construct(s, d, dt) /\ last'.outcome = "ok") => WellFormed(d)]_vars

\* C8 as amended: construction rejects a descriptor with neither values nor
\* texture, and a texture without its layout at every rank but 0, where the
\* texture is given the layout [1, 1]; values together with a texture, and a
\* layout without a texture, are not grounds for rejection.
AcceptedDescriptors ==
    [][\A s \in Shapes, d \in Descriptors, dt \in DTypes \cup {Undefined} :
          (last'.op = "make" /\ Construct(s, d, dt) /\ last'.outcome = "ok") =>
             /\ d.values # Null \/ d.texture # Null
             /\ d.texture # Null => (d.textureShapeRC # Null \/ Len(s) = 0)
             /\ (d.texture # Null /\ Len(s) = 0)
                   => data'.textureShapeRC = Some(<<1, 1>>)
             /\ (d.texture = Null /\ Len(s) = 0)
                   => data'.textureShapeRC = d.textureShapeRC]_vars

\* NDArray.make has accepted a descriptor that holds host values, a texture
\* and a layout.
AcceptedDescriptorsWitness ==
    /\ last.op = "make" /\ last.outcome = "ok"
    /\ data.values # Null /\ data.texture # Null /\ data.textureShapeRC # Null

QueryBeforeDownload ==
    [][/\ \A i \in DOMAIN tensors, ext \in BOOLEAN :
             (/\ last'.op = "getValuesAsync" /\ GetValuesAsync(i, ext)
              /\ ~GPUNotInitialized(gpu)) =>
                LET p == promises'[Len(promises')]
                IN  /\ (data.values = Null /\ data.texture # Null /\ ext) =>
                          /\ p.state = "pending"
                          /\ last'.calls = <<"runQuery">>
                          /\ data' = data /\ textures' = textures
                    /\ data.values # Null =>
                          /\ p.state = "resolved" /\ p.value = data.values
                          /\ last'.calls = <<>>
                          /\ data' = data /\ textures' = textures
                    /\ (data.values = Null /\ data.texture # Null /\ ~ext) =>
                          /\ p.state = "resolved" /\ p.value = data'.values
                          /\ last'.calls[1] = "downloadMatrixFromTexture"
                          /\ data'.values # Null /\ data'.texture = Null
       /\ \A k \in DOMAIN promises :
             (promises[k].state = "pending" /\ promises'[k].state = "resolved") =>
                /\ last'.op = "queryCallback"
                /\ promises'[k].value = data'.values
                /\ data'.values # Null
                /\ data.values = Null =>
                      last'.calls[1] = "downloadMatrixFromTexture"]_vars

\* The callback of a query has downloaded the texture and resolved the
\* promise with what it held.
QueryBeforeDownloadWitness ==
    /\ last.op = "queryCallback" /\ last.outcome = "ok"
    /\ last.calls # <<>> /\ last.calls[1] = "downloadMatrixFromTexture"
    /\ \E k \in DOMAIN promises :
          promises[k].state = "resolved" /\ promises[k].value = data.values
\* C12: every promise returned by getValuesAsync() is settled in the end,
\* resolved or rejected, when every query that was run completes or fails.
EveryRequestSettles ==
    \A k \in 1..MaxRequests :
        [](k \in DOMAIN promises =>
              <>(k \in DOMAIN promises
                   /\ promises[k].state \in {"resolved", "rejected"}))
\* The index tuples of a shape.
LocsOf(shape) ==
    {locs \in [1..Len(shape) -> 0..(MaxDim - 1)] :
        \A k \in DOMAIN locs : locs[k] < shape[k]}

\* idx[last] + sum of stride[i] * idx[i], stride[i] the product of the
\* dimensions after i.
RECURSIVE WeightedSum(_, _, _)
WeightedSum(shape, locs, n) ==
    IF n = 0 THEN 0
    ELSE locs[n] * SizeFromShape(SubSeq(shape, n + 1, Len(shape)))
            + WeightedSum(shape, locs, n - 1)

\* C13: for every array of rank >= 1 and every index tuple within its shape,
\* locToIndex gives idx[last] + sum of stride[i] * idx[i], a number in
\* 0..size-1; indexToLoc of that number is the index tuple again, and so
\* locToIndex of it the same number; the methods of Array1D and Array2D
\* give what the generic methods give.
IndexMappingsAreInverse ==
    [][\A i \in DOMAIN tensors :
          LET t == tensors[i]
              shape == Val(t.shape)
          IN  /\ \A locs \in LocsOf(shape) :
                    (/\ RankOf(t) >= 1
                     /\ last'.op = "locToIndex" /\ LocToIndexCall(i, locs)) =>
                       LET k == Val(last'.ret)
                       IN  /\ k = WeightedSum(shape, locs, Len(shape))
                           /\ k \in 0..(t.size - 1)
                           /\ k = LocToIndex(t.strides, locs)
                           /\ IndexToLocOf(t, k) = locs
                           /\ IndexToLoc(t.strides, k) = locs
                           /\ LocToIndexOf(t, IndexToLocOf(t, k)) = Some(k)
              /\ \A index \in 0..(t.size - 1) :
                    (/\ RankOf(t) >= 1
                     /\ last'.op = "indexToLoc" /\ IndexToLocCall(i, index)) =>
                       /\ last'.outcome = "ok"
                       /\ Val(last'.ret) \in LocsOf(shape)
                       /\ Val(last'.ret) = IndexToLoc(t.strides, index)
                       /\ LocToIndexOf(t, Val(last'.ret)) = Some(index)]_vars

\* indexToLoc of a 2 x 3 matrix has returned the second row, third column.
IndexMappingsWitness ==
    /\ last.op = "indexToLoc" /\ last.outcome = "ok"
    /\ tensors[1].shape = Some(<<2, 3>>)
    /\ last.ret = Some(<<1, 2>>)
\* C14: set(v, idx) on an array that was not disposed succeeds when the
\* values are on the host or the backend is initialized; get(idx) then
\* returns v, get at every other index within the shape returns what it
\* returned before, and the array keeps its shape and size. When the values
\* were in a texture, set downloads them first: afterwards they are on the
\* host and the texture has been released.
SetThenGet ==
    [][\A i \in DOMAIN tensors, v \in NewVals :
          \A locs \in ValidLocs(tensors[i]) :
             (/\ NoneDisposed
              /\ data.values # Null \/ ~GPUNotInitialized(gpu)
              /\ last'.op = "set" /\ Set(i, v, locs)) =>
                LET t == tensors[i]
                    before == GetValuesRes(data, textures, gpu)
                    after == GetValuesRes(data', textures', gpu')
                IN  /\ last'.outcome = "ok" /\ after.outcome = "ok"
                    /\ ElementAt(Val(after.ret), Offset(t, locs)) = Some(v)
                    /\ \A other \in ValidLocs(t) \ {locs} :
                          ElementAt(Val(after.ret), Offset(t, other))
                             = ElementAt(Val(before.ret), Offset(t, other))
                    /\ tensors' = tensors
                    /\ data.values = Null =>
                          /\ data'.values # Null /\ data'.texture = Null
                          /\ last'.calls = <<"downloadMatrixFromTexture", "releaseTexture">>
                          /\ textures'[Val(data.texture)].released
                                = <<Val(data.textureShapeRC)>>]_vars

\* set has downloaded a two-element array from its texture and written its
\* second element.
SetThenGetWitness ==
    /\ last.op = "set" /\ last.outcome = "ok"
    /\ last.calls = <<"downloadMatrixFromTexture", "releaseTexture">>
    /\ tensors[1].size = 2
    /\ data.values # Null /\ Val(data.values)[2] \in NewVals
    /\ Val(data.values)[1] \notin NewVals
\* C15: NDArray.like(t) succeeds on every array and t.equals of the copy is
\* true, whether the values of t are on the host or in a texture; a set on
\* the copy leaves the storage of t as it was, a set on t leaves the copy
\* as it was; and t.equals(u) is false whenever their shapes differ.
LikeIsEqualCopy ==
    [][/\ \A i \in DOMAIN tensors :
             (last'.op = "like" /\ Like(i)) =>
                /\ last'.outcome = "ok"
                /\ LET c == copies'[Len(copies')]
                   IN  EqualsOf(tensors[i], data', c.tensor, c.data.values,
                                textures', gpu').ret = Some(TRUE)
       /\ last'.op = "set" => copies' = copies
       /\ last'.op = "setCopy" => data' = data
       /\ \A i \in DOMAIN tensors, ref \in Refs :
             (/\ last'.op = "equals" /\ Equals(i, ref)
              /\ (IF ref[1] = "copy" THEN copies[ref[2]].tensor
                   ELSE tensors[ref[2]]).shape # tensors[i].shape)
                => last'.ret = Some(FALSE)]_vars
SyncValues == GetValuesRes(data, textures, gpu).ret

\* The number of releases the texture manager has logged.
RECURSIVE Releases(_, _)
Releases(tex, n) ==
    IF n = 0 THEN 0 ELSE Len(tex[n].released) + Releases(tex, n - 1)

\* C17: while requests made by getValuesAsync() on an array or its reshape
\* aliases are waiting for their queries, with or without a getValues() in
\* between, what getValues() would return stays what it was at the first
\* request; every request is resolved, inside the call or by its query's
\* callback, with exactly that; and the texture held at the first request
\* is downloaded once and released once: every download is one release,
\* and no texture is released twice.
RequestsResolveAlike ==
    [][promises' # <<>> =>
          /\ promises # <<>> => SyncValues' = SyncValues
          /\ \A k \in DOMAIN promises' :
                /\ promises'[k].state \in {"pending", "resolved"}
                /\ promises'[k].state = "resolved" =>
                      /\ promises'[k].value # Null
                      /\ promises'[k].value = SyncValues
                      /\ promises'[k].value = data'.values
                /\ (k \in DOMAIN promises /\ promises[k].state = "pending"
                      /\ last'.op = "queryCallback" /\ QueryCompletes(k))
                     => promises'[k].state = "resolved"
          /\ (IF last'.calls # <<>> /\ last'.calls[1] = "downloadMatrixFromTexture"
              THEN 1 ELSE 0)
                = Releases(textures', Len(textures')) - Releases(textures, Len(textures))
          /\ \A h \in DOMAIN textures' : Len(textures'[h].released) <= 1
          /\ data.texture # Null =>
                Len(textures'[Val(data.texture)].released)
                   = IF data'.texture = Null THEN 1 ELSE 0]_vars

\* Two requests waited for their queries on values held in a texture; both
\* are resolved, with the same values, and the texture was released once.
RequestsResolveAlikeWitness ==
    /\ Len(promises) = 2
    /\ promises[1].state = "resolved" /\ promises[2].state = "resolved"
    /\ promises[1].value = promises[2].value
    /\ last.op = "queryCallback" /\ last.calls = <<>>
    /\ \E h \in DOMAIN textures : Len(textures[h].released) = 1
\* C18: when acquireTexture throws during an upload, getTexture() and
\* getTextureShapeRC() raise that error and leave the storage as it was
\* before the call: host values kept, no texture, no cached layout; so a
\* getTextureShapeRC() that returns a layout has a texture for it.
PoolFailureLeavesStorage ==
    [][/\ (/\ last'.op \in {"getTexture", "getTextureShapeRC"}
           /\ last'.err = "pool exhausted") =>
              /\ last'.outcome = "error"
              /\ data' = data /\ textures' = textures
              /\ data'.values # Null /\ data'.texture = Null
              /\ data'.textureShapeRC = Null
       /\ (/\ last'.op = "getTextureShapeRC" /\ last'.outcome = "ok"
           /\ NoneDisposed /\ hist.origin = "values") =>
              data'.texture # Null]_vars
\* C19: for storage made from host values, in every state the textures
\* acquired less the textures released are one when the storage holds a
\* texture and none otherwise, and a layout is cached exactly when a
\* texture is held.
PoolIsBalanced ==
    hist.origin = "values" =>
        /\ Len(textures) - Releases(textures, Len(textures))
              = IF data.texture # Null THEN 1 ELSE 0
        /\ (data.textureShapeRC # Null) = (data.texture # Null)
\* C20: for an array t made with an element type tag and every shape s of
\* its size other than its own, t.reshape(s) carries the tag of t, and
\* t.reshape(s).reshape(t.shape).equals(t) is true.
ReshapeKeepsTag ==
    [][\A i \in DOMAIN tensors, s \in ReshapeShapes :
          (/\ last'.op = "reshape" /\ Reshape(i, s)
           /\ last'.outcome = "ok" /\ Val(last'.ret) # i
           /\ tensors[i].dtype \in DTypes) =>
             LET t == tensors[i]
                 r == tensors'[Val(last'.ret)]
                 back == Make(Val(t.shape), data', Undefined)
             IN  /\ r.dtype = t.dtype
                 /\ back.ok
                 /\ EqualsOf(back.tensor, back.data, t, Null, textures', gpu').ret
                       = Some(TRUE)]_vars
====
